---- MODULE Spec2Model ----
(***************************************************************************)
(* A model of the os2 kernel core: the continuation scheduler              *)
(* (kernel/sched/mod.rs, kernel/continuation/mod.rs, kernel/time.rs,       *)
(* kernel/io/kbd.rs), the capability registry (kernel/src/cap.rs) and the  *)
(* demand-paging fault path (kernel/src/memory/paging.rs).                 *)
(*                                                                         *)
(* Several specifications share the module.  SpecSched runs the scheduler  *)
(* with timer and keyboard interrupts; SpecMem runs the capability         *)
(* registry, the virtual-memory regions and the page-fault handler;        *)
(* SpecTime applies SysTime::after and the Until test to timestamps,       *)
(* seconds and tick counts; SpecWith applies ResourceHandle::with to       *)
(* handles of any key.  The variables a specification does not use keep    *)
(* their initial values.                                                   *)
(***************************************************************************)
EXTENDS Integers, Sequences, FiniteSets, TLC

VARIABLES
    \* ---- scheduler half ----
    ticks,        \* time.rs TICKS
    kbdBuffer,    \* kbd.rs KBD_BUFFER: sequence of bytes
    kbdLock,      \* the spin::Mutex around KBD_BUFFER is held
    next,         \* Scheduler.next: sequence of pending (EventKind, Continuation)
    popped,       \* Scheduler::next's popped entry while kbd_next is executing
    schedLock,    \* the spin::Mutex around SCHEDULER is held
    stacks,       \* Scheduler.current_stack / clean_stack, their contents, %rsp
    pc,           \* where the single kernel control flow is
    scanLeft,     \* iterations left of the `for _ in 0..self.next.len()` loop
    scanStart,    \* the pending list when the running call of Scheduler::next began (ghost)
    cur,          \* the (Event, Continuation) pair handed to Continuation::run
    nextId,       \* identity of the next Continuation::new (ghost)
    finished,     \* continuations whose Continuation::run has been done (ghost)
    timer,        \* a SysTime::after call and a poll of its Until entry
    \* ---- memory half ----
    virtFree,     \* VIRT_MEM_ALLOC: the page numbers still free
    physFree,     \* PHYS_MEM_ALLOC: the number of frames still free
    unreg,        \* live UnregisteredResourceHandles
    registry,     \* CAPABILITY_REGISTRY: key -> capability
    regPc,        \* position inside UnregisteredResourceHandle::register
    regRand,      \* register's local `rand`
    regRes,       \* register's `self.resource`
    handles,      \* the ResourceHandles returned so far, with the object each came from (ghost)
    lastWith,     \* the last ResourceHandle::with call and its result (ghost)
    allowed,      \* ALLOWED: start -> (len, flags)
    pageTable,    \* PAGE_TABLES: leaf mappings, page start address -> flags
    faults,       \* the page faults taken so far (ghost)
    panicked,     \* the kernel has panicked (halted)
    \* ---- boot, capability groups, user mode ----
    boot,         \* kernel_main: which build, where it is, what it has done
    groups,       \* the CapabilityGroup values constructed so far (ghost)
    cpu,          \* the processor's registers
    cpu2,         \* the registers of a second execution of switch_to_user
    registers,    \* the SavedRegs last handed to switch_to_user, or saved by entry
    mode,         \* kernel, user, syscall (entry has run), panic
    startArgs,    \* the arguments of start_user_task and the flags it read (ghost)
    atSyscall,    \* the registers at the last syscall instruction (ghost)
    userOps,      \* user instructions executed
    kernelRegs,   \* the registers before switch_to_user, in both executions (ghost)
    args,         \* the arguments of the function applied, for the functions checked as such
    ret           \* what it returned

schedVars == <<ticks, kbdBuffer, kbdLock, next, popped, schedLock, stacks, pc,
               scanLeft, scanStart, cur, nextId, finished, timer>>
memVars == <<virtFree, physFree, unreg, registry, regPc, regRand, regRes, handles,
             lastWith, allowed, pageTable, faults, panicked>>
otherVars == <<boot, groups, cpu, cpu2, registers, mode, startArgs, atSyscall,
               userOps, kernelRegs, args, ret>>
vars == <<schedVars, memVars, otherVars>>

(***************************************************************************)
(* Bounds of the model.                                                    *)
(***************************************************************************)
MaxTicks == 3        \* the timer stops ticking after this many ticks
MaxConts == 4        \* continuations ever created by Continuation::new
MaxKbd == 2          \* bytes the keyboard buffer holds at most
MaxBatch == 2        \* pairs in one ContResult::Success list
MaxPages == 2        \* npages given to alloc / alloc_with_guard
MaxRegions == 1      \* unregistered handles alive at once
MaxFrames == 3       \* frames in the physical allocator
MaxFaults == 2       \* page faults taken
VirtPages == 5       \* pages seeded into the virtual address allocator
MaxStamp == 2        \* the timestamps SysTime::after is called on
MaxSecs == 4         \* the seconds SysTime::after is called with
MaxCaps == 2         \* capabilities in the Vec given to CapabilityGroup::new
MaxGroups == 3       \* CapabilityGroup values constructed
MaxUserOps == 2      \* instructions user code executes
MaxMap == 2          \* regions of a boot memory map
MaxFrameSpan == 3    \* frame numbers past RESERVED that regions reach
MaxSections == 2     \* loadable sections of a binary
MaxE820 == 2         \* entries of the E820 memory map
MaxAddr == 3         \* addresses of the E820 memory map

(***************************************************************************)
(* Program constants.                                                      *)
(***************************************************************************)
Size4KiB == 4096
\* The first page number of the virtual allocator's range, scaled down from
\* (KERNEL_HEAP_START + KERNEL_HEAP_SIZE) so that byte addresses stay small.
VirtFirstPage == 4
\* StdRng::from_seed([0; 32]).gen(): the same seed at every call, so the same value.
SeededKey == 7
\* interrupts::pit::HZ, the frequency the PIT is programmed to.
PIT_HZ == 1000

Bytes == {97, 98}
None == [none |-> TRUE]

(***************************************************************************)
(* spin::Mutex.  lock() returns once the mutex is free and holds it until  *)
(* the guard is dropped; a holder that never runs again is waited for      *)
(* forever.                                                                *)
(***************************************************************************)
\* The value of a mutex once lock() has returned.
lock == TRUE

\* The value of a mutex after its guard went out of scope.
leak_guard == TRUE
drop_guard == FALSE

(***************************************************************************)
(* Time source (kernel/time.rs).                                           *)
(***************************************************************************)
\* SysTime::now reads TICKS
now == ticks

\* SysTime::after: SysTime(self.0 + secs * PIT_HZ)
after_ticks(s, secs) == s + secs
after(s, secs) == s + secs * PIT_HZ

\* time::tick, called from the PIT interrupt (pic_irq, irq 0).  No interrupt
\* is delivered while an interrupt handler is executing.
tick ==
    /\ pc # "spin"
    /\ ticks < MaxTicks
    /\ ticks' = ticks + 1
    /\ pc' = IF pc = "hlt" THEN "sched" ELSE pc
    /\ UNCHANGED <<kbdBuffer, kbdLock, next, popped, schedLock, stacks, scanLeft, scanStart,
                   cur, nextId, finished, timer>>
    /\ UNCHANGED <<memVars, otherVars>>

\* pic_irq for irq 13 and irq 15: nothing but the end-of-interrupt.  The only
\* effect on the kernel is that a hlt returns.
pic_irq_other ==
    /\ pc = "hlt"
    /\ pc' = "sched"
    /\ UNCHANGED <<ticks, kbdBuffer, kbdLock, next, popped, schedLock, stacks,
                   scanLeft, scanStart, cur, nextId, finished, timer>>
    /\ UNCHANGED <<memVars, otherVars>>

(***************************************************************************)
(* Keyboard buffer (kernel/io/kbd.rs).                                     *)
(***************************************************************************)
\* VecDeque::push_back of the handler.
push_key(buf, key) == Append(buf, key)

\* kbd::handler, called from the keyboard interrupt (pic_irq, irq 1) when
\* read() decodes a key: KBD_BUFFER.lock(), then push_back.  When the
\* interrupted code holds the lock, lock() spins with interrupts disabled.
handler_dispatch ==
    /\ pc \notin {"spin", "kbd"}
    /\ Len(kbdBuffer) < MaxKbd
    /\ \E key \in Bytes : kbdBuffer' = push_key(kbdBuffer, key)
    /\ next' = SelectSeq(next, LAMBDA e : e.kind = "Keyboard")
               \o SelectSeq(next, LAMBDA e : e.kind # "Keyboard")
    /\ pc' = IF pc = "hlt" THEN "sched" ELSE pc
    /\ UNCHANGED <<ticks, kbdLock, popped, schedLock, stacks, scanLeft, scanStart, cur,
                   nextId, finished, timer>>
    /\ UNCHANGED <<memVars, otherVars>>
handler ==
    /\ pc # "spin"
    /\ IF kbdLock
       THEN /\ pc' = "spin"
            /\ UNCHANGED kbdBuffer
       ELSE /\ Len(kbdBuffer) < MaxKbd
            /\ \E key \in Bytes : kbdBuffer' = push_key(kbdBuffer, key)
            /\ pc' = IF pc = "hlt" THEN "sched" ELSE pc
    /\ UNCHANGED <<ticks, kbdLock, next, popped, schedLock, stacks, scanLeft, scanStart, cur,
                   nextId, finished, timer>>
    /\ UNCHANGED <<memVars, otherVars>>

\* kbd_next: pop_front of the buffer; the result and the buffer left.
kbd_next_back(buf) ==
    IF buf = <<>> THEN [some |-> FALSE, c |-> 0, rest |-> buf]
    ELSE [some |-> TRUE, c |-> buf[Len(buf)], rest |-> SubSeq(buf, 1, Len(buf) - 1)]
kbd_next_none(buf) == [some |-> FALSE, c |-> 0, rest |-> buf]
kbd_next_peek(buf) ==
    IF buf = <<>> THEN [some |-> FALSE, c |-> 0, rest |-> buf]
    ELSE [some |-> TRUE, c |-> Head(buf), rest |-> buf]
kbd_next(buf) ==
    IF buf = <<>> THEN [some |-> FALSE, c |-> 0, rest |-> buf]
    ELSE [some |-> TRUE, c |-> Head(buf), rest |-> Tail(buf)]

(***************************************************************************)
(* Continuations and events (kernel/continuation/mod.rs).                  *)
(***************************************************************************)
Times == 0..(MaxTicks + 1)

\* A Continuation; `id` names the closure, `idle` says it is make_idle_cont's.
Cont(id, idle) == [id |-> id, idle |-> idle]

\* EventKind: Now, Keyboard, Until(SysTime)
EventKind == {[kind |-> "Now", time |-> 0], [kind |-> "Keyboard", time |-> 0]}
             \cup {[kind |-> "Until", time |-> t] : t \in Times}

\* One (EventKind, Continuation) pair of the pending list.
Pair(k, cont) == [kind |-> k.kind, time |-> k.time, cont |-> cont]

\* The pairs a ContResult::Success may carry: up to MaxBatch new continuations,
\* numbered from `id` on.
RECURSIVE Batches(_, _)
Batches(id, n) ==
    IF n = 0 \/ id > MaxConts THEN {<<>>}
    ELSE {<<>>} \cup
         {<<Pair(k, Cont(id, FALSE))>> \o rest :
              k \in EventKind, rest \in Batches(id + 1, n - 1)}

(***************************************************************************)
(* The scheduler (kernel/sched/mod.rs).                                    *)
(***************************************************************************)
\* make_idle_cont
make_busy_cont(id) == Cont(id, FALSE)
make_idle_cont(id) == Cont(id, TRUE)

\* Stack::clear: every word becomes 0xDEADBEEF_DEADBEEF
clear_other(fill, s) == [t \in DOMAIN fill |-> IF t = s THEN fill[t] ELSE "DEADBEEF"]
clear(fill, s) == [fill EXCEPT ![s] = "DEADBEEF"]

\* The test of the Until arm of Scheduler::next: SysTime::now() >= time
timer_ready_early(time) == now + 1 >= time
timer_ready(time) == now >= time

\* One arm of the match in Scheduler::next, for the entry e popped from the
\* front: whether it is returned, the Event it is returned with, and the
\* keyboard buffer left.
examine_as_now(e, buf) == [ready |-> TRUE, ev |-> "Now", c |-> 0, buf |-> buf]
examine(e, buf) ==
    IF e.kind = "Now" THEN
        [ready |-> TRUE, ev |-> "Now", c |-> 0, buf |-> buf]
    ELSE IF e.kind = "Until" THEN
        IF timer_ready(e.time)
        THEN [ready |-> TRUE, ev |-> "Timer", c |-> 0, buf |-> buf]
        ELSE [ready |-> FALSE, ev |-> "Timer", c |-> 0, buf |-> buf]
    ELSE
        LET k == kbd_next(buf) IN
        IF k.some
        THEN [ready |-> TRUE, ev |-> "Keyboard", c |-> k.c, buf |-> k.rest]
        ELSE [ready |-> FALSE, ev |-> "Keyboard", c |-> 0, buf |-> k.rest]

\* VecDeque::pop_front and VecDeque::push_back of Scheduler::next: the list
\* left by the one, the list made by the other.
pop_front_peek(list) == list
pop_front(list) == Tail(list)
push_back_drop(list, e) == list
push_back_front(list, e) == <<e>> \o list
push_back(list, e) == Append(list, e)

\* Scheduler::enqueue: self.next.extend(cont.drain(..))
enqueue_front(list) == next' = list \o next
enqueue(list) == next' = next \o list

\* sched: swap the stacks under the lock and read the new stack's first_rsp;
\* the guard is dropped at the end of the block, before the thunk is called.
sched ==
    /\ pc = "sched"
    /\ ~schedLock
    /\ stacks' = [current |-> stacks.clean, clean |-> stacks.current,
                  fill |-> [stacks.fill EXCEPT ![stacks.clean] = "used"],
                  rsp |-> stacks.rsp]
    /\ schedLock' = drop_guard
    /\ pc' = "thunk"
    /\ UNCHANGED <<ticks, kbdBuffer, kbdLock, next, popped, scanLeft, scanStart, cur, nextId,
                   finished, timer>>
    /\ UNCHANGED <<memVars, otherVars>>

\* sched_part_2_thunk: load %rsp and %rbp with the new stack's first_rsp and
\* call sched_part_3.
sched_part_2_thunk ==
    /\ pc = "thunk"
    /\ stacks' = [stacks EXCEPT !.rsp = stacks.current]
    /\ pc' = "part3"
    /\ UNCHANGED <<ticks, kbdBuffer, kbdLock, next, popped, schedLock, scanLeft, scanStart,
                   cur, nextId, finished, timer>>
    /\ UNCHANGED <<memVars, otherVars>>

\* sched_part_3 up to the call of Scheduler::next: take the lock, clean the
\* old stack and enter the scan, whose bound is the length of the list at
\* that moment.
sched_part_3 ==
    /\ pc = "part3"
    /\ ~schedLock
    /\ schedLock' = lock
    /\ stacks' = [stacks EXCEPT !.fill = clear(stacks.fill, stacks.clean)]
    /\ scanLeft' = Len(next)
    /\ scanStart' = next
    /\ pc' = "scan"
    /\ UNCHANGED <<ticks, kbdBuffer, kbdLock, next, popped, cur, nextId, finished, timer>>
    /\ UNCHANGED <<memVars, otherVars>>

\* The Keyboard arm of Scheduler::next up to the pop inside kbd_next: the
\* entry has been popped from the list and KBD_BUFFER.lock() has returned.
kbd_next_lock ==
    /\ pc = "scan"
    /\ scanLeft > 0
    /\ next # <<>>
    /\ Head(next).kind = "Keyboard"
    /\ ~kbdLock
    /\ popped' = Head(next)
    /\ next' = pop_front(next)
    /\ kbdLock' = lock
    /\ pc' = "kbd"
    /\ UNCHANGED <<ticks, kbdBuffer, schedLock, stacks, scanLeft, scanStart, cur, nextId,
                   finished, timer>>
    /\ UNCHANGED <<memVars, otherVars>>

\* One iteration of the loop of Scheduler::next: pop the front entry, return
\* it when it is ready (sched_part_3 then drops the scheduler's guard and
\* runs it), push it back otherwise.  For a Keyboard entry this is the rest
\* of the iteration, from the pop_front inside kbd_next on.
next_step ==
    /\ \/ pc = "scan" /\ scanLeft > 0 /\ next # <<>> /\ Head(next).kind # "Keyboard"
       \/ pc = "kbd"
    /\ LET e == IF pc = "kbd" THEN popped ELSE Head(next)
           rest == IF pc = "kbd" THEN next ELSE pop_front(next)
           r == examine(e, kbdBuffer)
       IN /\ kbdBuffer' = r.buf
          /\ IF r.ready
             THEN /\ next' = rest
                  /\ cur' = [ev |-> r.ev, c |-> r.c, cont |-> e.cont,
                             kind |-> e.kind, time |-> e.time]
                  /\ scanLeft' = 0
                  /\ scanStart' = <<>>
                  /\ schedLock' = drop_guard
                  /\ pc' = "run"
             ELSE /\ next' = push_back(rest, e)
                  /\ scanLeft' = scanLeft - 1
                  /\ scanStart' = scanStart
                  /\ pc' = "scan"
                  /\ UNCHANGED <<cur, schedLock>>
    /\ popped' = None
    /\ kbdLock' = IF pc = "kbd" THEN drop_guard ELSE kbdLock
    /\ UNCHANGED <<ticks, stacks, nextId, finished, timer>>
    /\ UNCHANGED <<memVars, otherVars>>

\* Scheduler::next returns None after the loop; sched_part_3 then makes the
\* idle continuation, drops the guard and runs it with Event::Now.
next_none ==
    /\ pc = "scan"
    /\ scanLeft = 0
    /\ scanStart' = <<>>
    /\ cur' = [ev |-> "Now", c |-> 0, cont |-> make_idle_cont(0),
               kind |-> "Now", time |-> 0]
    /\ schedLock' = drop_guard
    /\ pc' = "run"
    /\ UNCHANGED <<ticks, kbdBuffer, kbdLock, next, popped, stacks, scanLeft,
                   nextId, finished, timer>>
    /\ UNCHANGED <<memVars, otherVars>>

\* Continuation::run of an ordinary continuation: call the closure, enqueue
\* what its ContResult asks for (sched::enqueue takes the scheduler's lock
\* for the call), drop the continuation, call sched().
run ==
    /\ pc = "run"
    /\ ~cur.cont.idle
    /\ ~schedLock
    /\ \/ \E list \in Batches(nextId, MaxBatch) :     \* ContResult::Success(list)
            /\ enqueue(list)
            /\ nextId' = nextId + Len(list)
       \/ /\ nextId <= MaxConts                        \* ContResult::Error(cont)
          /\ enqueue(<<Pair([kind |-> "Now", time |-> 0], Cont(nextId, FALSE))>>)
          /\ nextId' = nextId + 1
       \/ /\ nextId <= MaxConts                        \* ContResult::Done: sched::idle()
          /\ enqueue(<<Pair([kind |-> "Now", time |-> 0], make_idle_cont(nextId))>>)
          /\ nextId' = nextId + 1
    /\ schedLock' = drop_guard
    /\ finished' = finished \cup {cur.cont.id}
    /\ cur' = None
    /\ pc' = "sched"
    /\ UNCHANGED <<ticks, kbdBuffer, kbdLock, popped, stacks, scanLeft, scanStart, timer>>
    /\ UNCHANGED <<memVars, otherVars>>

\* Continuation::run of an idle continuation: the closure halts until the next
\* interrupt and calls sched() itself; nothing is enqueued.
run_idle ==
    /\ pc = "run"
    /\ cur.cont.idle
    /\ finished' = finished \cup {cur.cont.id}
    /\ cur' = None
    /\ pc' = "hlt"
    /\ UNCHANGED <<ticks, kbdBuffer, kbdLock, next, popped, schedLock, stacks,
                   scanLeft, scanStart, nextId, timer>>
    /\ UNCHANGED <<memVars, otherVars>>

\* The state sched::init(init) followed by sched::start() leaves, as
\* kernel_main calls them, with the tick counter at t.
InitSchedAt(t) ==
    /\ ticks = t
    /\ kbdBuffer = <<>>
    /\ kbdLock = FALSE
    /\ next = <<Pair([kind |-> "Now", time |-> 0], Cont(1, FALSE))>>
    /\ popped = None
    /\ schedLock = FALSE
    /\ stacks = [current |-> "A", clean |-> "B",
                 fill |-> [s \in {"A", "B"} |-> "zero"], rsp |-> "boot"]
    /\ pc = "sched"
    /\ scanLeft = 0
    /\ scanStart = <<>>
    /\ cur = None
    /\ nextId = 2
    /\ finished = {}
    /\ timer = None

InitSched == InitSchedAt(0)

(***************************************************************************)
(* SysTime::after and the Until arm of Scheduler::next, as functions of    *)
(* the timestamp, the seconds and the tick counter.                        *)
(***************************************************************************)
\* The tick counts the Until test is polled at.
TickCounts == 0..(MaxStamp + MaxSecs * PIT_HZ + 1)

\* s.after(secs) for a timestamp s.
after_call ==
    /\ timer = None
    /\ \E s \in 0..MaxStamp, secs \in 0..MaxSecs :
          timer' = [s |-> s, secs |-> secs, time |-> after(s, secs),
                    polled |-> FALSE, ready |-> FALSE]
    /\ UNCHANGED <<ticks, kbdBuffer, kbdLock, next, popped, schedLock, stacks, pc,
                   scanLeft, scanStart, cur, nextId, finished>>
    /\ UNCHANGED <<memVars, otherVars>>

\* The match of Scheduler::next on an entry queued under Until(s.after(secs)).
until_poll ==
    /\ timer # None
    /\ ~timer.polled
    /\ timer' = [timer EXCEPT
                   !.polled = TRUE,
                   !.ready = examine([kind |-> "Until", time |-> timer.time,
                                      cont |-> Cont(1, FALSE)], kbdBuffer).ready]
    /\ UNCHANGED <<ticks, kbdBuffer, kbdLock, next, popped, schedLock, stacks, pc,
                   scanLeft, scanStart, cur, nextId, finished>>
    /\ UNCHANGED <<memVars, otherVars>>

InitTime == \E t \in TickCounts : InitSchedAt(t)

(***************************************************************************)
(* Virtual memory regions (kernel/src/memory/paging.rs).                   *)
(***************************************************************************)
EmptyMap == [k \in {} |-> 0]

VirtPageRange == VirtFirstPage..(VirtFirstPage + VirtPages - 1)

\* The page-table flag sets sched/user.rs passes to map_region.
FlagSets == {{"PRESENT", "WRITABLE", "USER_ACCESSIBLE"},
             {"PRESENT", "WRITABLE", "USER_ACCESSIBLE", "NO_EXECUTE"}}

\* The blocks the virtual address allocator can hand out for npages pages.
FreeBlocks(npages) ==
    {mem \in virtFree : \A p \in mem..(mem + npages - 1) : p \in virtFree}

\* The VirtualMemoryRegion that alloc builds from the allocator's page number.
alloc_region(mem, npages) == [addr |-> mem * Size4KiB, len |-> npages * Size4KiB]

\* VirtualMemoryRegion::guard
guard_down(r) == [addr |-> r.addr - Size4KiB, len |-> r.len - Size4KiB]
guard(r) == [addr |-> r.addr + Size4KiB, len |-> r.len - Size4KiB * 2]

\* An UnregisteredResourceHandle: the capability it holds and, as ghost
\* fields, the request it came from and the first address of its block.
Unregistered(res, mem, npages, guarded) ==
    [res |-> res, block |-> mem * Size4KiB, npages |-> npages, guarded |-> guarded]

\* VirtualMemoryRegion::alloc(npages)
alloc(npages) ==
    /\ ~panicked
    /\ regPc = "idle"
    /\ Cardinality(unreg) < MaxRegions
    /\ IF FreeBlocks(npages) = {}
       THEN /\ panicked' = TRUE                  \* expect("Out of virtual memory.")
            /\ UNCHANGED <<virtFree, unreg>>
       ELSE \E mem \in FreeBlocks(npages) :
            /\ virtFree' = virtFree \ (mem..(mem + npages - 1))
            /\ unreg' = unreg \cup
                   {Unregistered(alloc_region(mem, npages), mem, npages, FALSE)}
            /\ UNCHANGED panicked
    /\ UNCHANGED <<physFree, registry, regPc, regRand, regRes, handles, lastWith,
                   allowed, pageTable, faults>>
    /\ UNCHANGED <<schedVars, otherVars>>

\* VirtualMemoryRegion::alloc_with_guard(npages): alloc(npages + 2), then guard().
alloc_with_guard(npages) ==
    /\ ~panicked
    /\ regPc = "idle"
    /\ Cardinality(unreg) < MaxRegions
    /\ IF FreeBlocks(npages + 2) = {}
       THEN /\ panicked' = TRUE                  \* expect("Out of virtual memory.")
            /\ UNCHANGED <<virtFree, unreg>>
       ELSE \E mem \in FreeBlocks(npages + 2) :
            /\ virtFree' = virtFree \ (mem..(mem + npages + 1))
            /\ unreg' = unreg \cup
                   {Unregistered(guard(alloc_region(mem, npages + 2)), mem, npages, TRUE)}
            /\ UNCHANGED panicked
    /\ UNCHANGED <<physFree, registry, regPc, regRand, regRes, handles, lastWith,
                   allowed, pageTable, faults>>
    /\ UNCHANGED <<schedVars, otherVars>>

(***************************************************************************)
(* Capability registry (kernel/src/cap.rs).                                *)
(***************************************************************************)
\* The test of the while loop of register: contains_key(&rand)
contains_key_never(reg, key) == FALSE
contains_key(reg, key) == key \in DOMAIN reg

\* BTreeMap::insert
insert_at_zero(map, key, value) ==
    [k \in DOMAIN map \cup {0} |-> IF k = 0 THEN value ELSE map[k]]
insert(map, key, value) ==
    [k \in DOMAIN map \cup {key} |-> IF k = key THEN value ELSE map[k]]

\* register, up to the loop: take the registry lock and draw the candidate key
\* from a generator seeded with zeroes.
register_begin(u) ==
    /\ ~panicked
    /\ regPc = "idle"
    /\ u \in unreg
    /\ unreg' = unreg \ {u}
    /\ regRes' = u
    /\ regRand' = SeededKey
    /\ regPc' = "loop"
    /\ UNCHANGED <<virtFree, physFree, registry, handles, lastWith, allowed,
                   pageTable, faults, panicked>>
    /\ UNCHANGED <<schedVars, otherVars>>

\* register, one iteration of `while contains_key(&rand) { rand = rand; }`:
\* the body assigns the candidate to itself, so the iteration changes nothing.
register_retry ==
    /\ regPc = "loop"
    /\ contains_key(registry, regRand)
    /\ regRand' = regRand
    /\ UNCHANGED <<virtFree, physFree, unreg, registry, regPc, regRes, handles,
                   lastWith, allowed, pageTable, faults, panicked>>
    /\ UNCHANGED <<schedVars, otherVars>>

\* register, after the loop: insert the capability and return the handle.
register_insert ==
    /\ regPc = "loop"
    /\ ~contains_key(registry, regRand)
    /\ registry' = insert(registry, regRand, regRes.res)
    /\ handles' = Append(handles, [key |-> regRand, from |-> regRes])
    /\ regPc' = "idle"
    /\ regRes' = None
    /\ UNCHANGED <<virtFree, physFree, unreg, regRand, lastWith, allowed,
                   pageTable, faults, panicked>>
    /\ UNCHANGED <<schedVars, otherVars>>

\* The closures given to ResourceHandle::with.
Closures == {"start", "len", "cap"}

call(f, cap) ==
    CASE f = "start" -> cap.addr
      [] f = "len" -> cap.len
      [] OTHER -> cap

\* The lookup of ResourceHandle::with: get(&self.key)
get_or_default(reg, key) ==
    IF key \in DOMAIN reg THEN reg[key] ELSE [addr |-> 0, len |-> 0]
get(reg, key) == IF key \in DOMAIN reg THEN reg[key] ELSE None

\* ResourceHandle::with(f)
with(i, f) ==
    /\ ~panicked
    /\ regPc = "idle"
    /\ i \in 1..Len(handles)
    /\ LET cap == get(registry, handles[i].key) IN
       IF cap = None
       THEN /\ panicked' = TRUE                  \* unwrap() of None
            /\ UNCHANGED lastWith
       ELSE /\ lastWith' = [handle |-> i, f |-> f, result |-> call(f, cap)]
            /\ UNCHANGED panicked
    /\ UNCHANGED <<virtFree, physFree, unreg, registry, regPc, regRand, regRes,
                   handles, allowed, pageTable, faults>>
    /\ UNCHANGED <<schedVars, otherVars>>

(***************************************************************************)
(* Demand paging (kernel/src/memory/paging.rs).                            *)
(***************************************************************************)
\* map_region(region, flags): read start and len through the handle, record
\* them in ALLOWED.
map_region_eager(i, flags) ==
    /\ ~panicked
    /\ regPc = "idle"
    /\ i \in 1..Len(handles)
    /\ handles[i].key \in DOMAIN registry
    /\ physFree > 0
    /\ LET cap == registry[handles[i].key] IN
       /\ allowed' = [k \in DOMAIN allowed \cup {cap.addr} |->
                         IF k = cap.addr THEN [len |-> cap.len, flags |-> flags]
                         ELSE allowed[k]]
       /\ pageTable' = [k \in DOMAIN pageTable \cup {cap.addr} |->
                           IF k = cap.addr THEN flags ELSE pageTable[k]]
       /\ physFree' = physFree - 1
    /\ UNCHANGED <<virtFree, unreg, registry, regPc, regRand, regRes,
                   handles, lastWith, faults, panicked>>
    /\ UNCHANGED <<schedVars, otherVars>>
map_region(i, flags) ==
    /\ ~panicked
    /\ regPc = "idle"
    /\ i \in 1..Len(handles)
    /\ LET cap == get(registry, handles[i].key) IN
       IF cap = None
       THEN /\ panicked' = TRUE                  \* unwrap() of None in with
            /\ UNCHANGED allowed
       ELSE /\ allowed' = insert(allowed, call("start", cap),
                                 [len |-> call("len", cap), flags |-> flags])
            /\ UNCHANGED panicked
    /\ UNCHANGED <<virtFree, physFree, unreg, registry, regPc, regRand, regRes,
                   handles, lastWith, pageTable, faults>>
    /\ UNCHANGED <<schedVars, otherVars>>

\* The addresses a fault is taken at: the first and the last byte of every
\* page of the allocator's range and of the page on either side of it.
FaultAddrs ==
    {p * Size4KiB + o : p \in (VirtFirstPage - 1)..(VirtFirstPage + VirtPages),
                        o \in {0, Size4KiB - 1}}

\* The start address of the page containing an address.
PageOf(a) == (a \div Size4KiB) * Size4KiB

Max(S) == CHOOSE x \in S : \A y \in S : y <= x

\* ALLOWED.range(0..=cr2).next_back(): the entry with the greatest start <= cr2
range_next_back(map, cr2) ==
    LET below == {s \in DOMAIN map : s <= cr2} IN
    IF below = {} THEN None
    ELSE [start |-> Max(below), len |-> map[Max(below)].len,
          flags |-> map[Max(below)].flags]

\* The page the handler maps: Page::from_start_address(VirtAddr::new(*start))
fault_page_containing(start, cr2) == PageOf(cr2)
fault_page(start, cr2) == start

\* Whether some entry of ALLOWED covers the address (ghost: what the handler
\* is meant to decide).
Covered(map, a) == \E s \in DOMAIN map : s <= a /\ a < s + map[s].len

\* handle_page_fault drawing the frame before it looks the address up.
handle_page_fault_frame_first(cr2) ==
    /\ ~panicked
    /\ regPc = "idle"
    /\ Len(faults) < MaxFaults
    /\ PageOf(cr2) \notin DOMAIN pageTable
    /\ physFree > 0
    /\ physFree' = physFree - 1
    /\ faults' = Append(faults, [addr |-> cr2, covered |-> Covered(allowed, cr2),
                                 framesBefore |-> physFree])
    /\ LET found == range_next_back(allowed, cr2) IN
       IF found = None \/ fault_page(found.start, cr2) \in DOMAIN pageTable
       THEN panicked' = TRUE /\ UNCHANGED pageTable
       ELSE /\ pageTable' = insert(pageTable, fault_page(found.start, cr2), found.flags)
            /\ UNCHANGED panicked
    /\ UNCHANGED <<virtFree, unreg, registry, regPc, regRand, regRes, handles,
                   lastWith, allowed>>
    /\ UNCHANGED <<schedVars, otherVars>>

\* handle_page_fault, for a fault at address cr2 on a page that is not present.
\* physFree counts the frame the handler draws with allocate_frame() and
\* pageTable the leaf mapping map_to installs; frames map_to may draw for
\* missing intermediate tables are outside the model.
handle_page_fault(cr2) ==
    /\ ~panicked
    /\ regPc = "idle"
    /\ Len(faults) < MaxFaults
    /\ PageOf(cr2) \notin DOMAIN pageTable
    /\ LET found == range_next_back(allowed, cr2)
           log == [addr |-> cr2, covered |-> Covered(allowed, cr2),
                   framesBefore |-> physFree]
       IN
       IF found = None THEN
           \* panic!("Segfault at ip {:x}, addr {:x}")
           /\ panicked' = TRUE
           /\ faults' = Append(faults, log)
           /\ UNCHANGED <<physFree, pageTable>>
       ELSE IF physFree = 0 THEN
           \* allocate_frame() is None: expect("Unable to allocate physical memory")
           /\ panicked' = TRUE
           /\ faults' = Append(faults, log)
           /\ UNCHANGED <<physFree, pageTable>>
       ELSE LET page == fault_page(found.start, cr2) IN
           /\ physFree' = physFree - 1
           /\ faults' = Append(faults, log)
           /\ IF page \in DOMAIN pageTable
              THEN \* map_to is Err(PageAlreadyMapped): expect("Unable to map page")
                   /\ panicked' = TRUE
                   /\ UNCHANGED pageTable
              ELSE /\ pageTable' = insert(pageTable, page, found.flags)
                   /\ UNCHANGED panicked
    /\ UNCHANGED <<virtFree, unreg, registry, regPc, regRand, regRes, handles,
                   lastWith, allowed>>
    /\ UNCHANGED <<schedVars, otherVars>>

\* cap::init and memory::init, as kernel_main calls them.
InitMemWith(hs) ==
    /\ virtFree = VirtPageRange
    /\ physFree = MaxFrames
    /\ unreg = {}
    /\ registry = EmptyMap
    /\ regPc = "idle"
    /\ regRand = 0
    /\ regRes = None
    /\ handles = hs
    /\ lastWith = None
    /\ allowed = EmptyMap
    /\ pageTable = EmptyMap
    /\ faults = <<>>
    /\ panicked = FALSE

\* After cap::init(): an empty registry and no handle handed out.
InitMem == InitMemWith(<<>>)

\* The keys of the ResourceHandle values ResourceHandle::with is applied to
\* as a function: one that no register() call returns, and the one they do.
HandleKeys == {0, SeededKey}

\* The same, with one ResourceHandle value of any key in hand.
InitWith ==
    \E key \in HandleKeys : InitMemWith(<<[key |-> key, from |-> None]>>)

(***************************************************************************)
(* Capability groups (kernel/src/cap.rs).                                  *)
(***************************************************************************)
\* Capability::CapabilityGroup(_), as against Capability::VirtualMemoryRegion(_)
IsGroup(cap) == "caps" \in DOMAIN cap

\* The Vec<Capability> a caller can build: up to MaxCaps capabilities.  The
\* fields of a VirtualMemoryRegion are private to memory::paging and alloc
\* hands regions out inside an UnregisteredResourceHandle only, so the
\* capabilities a caller holds by value are groups it has constructed.
CapLists == UNION {[1..n -> groups] : n \in 0..MaxCaps}

\* CapabilityGroup::new(caps): CapabilityGroup { caps }
CapabilityGroup_new(caps) ==
    /\ Cardinality(groups) < MaxGroups
    /\ [caps |-> caps] \notin groups
    /\ groups' = groups \cup {[caps |-> caps]}
    /\ UNCHANGED <<boot, cpu, cpu2, registers, mode, startArgs, atSyscall, userOps,
                   kernelRegs, args, ret>>
    /\ UNCHANGED <<schedVars, memVars>>

\* UnregisteredResourceHandle::new(Capability::CapabilityGroup(g))
UnregisteredResourceHandle_new(g) ==
    /\ ~panicked
    /\ regPc = "idle"
    /\ Cardinality(unreg) < MaxRegions
    /\ unreg' = unreg \cup {Unregistered(g, 0, 0, FALSE)}
    /\ UNCHANGED <<virtFree, physFree, registry, regPc, regRand, regRes, handles,
                   lastWith, allowed, pageTable, faults, panicked>>
    /\ UNCHANGED <<schedVars, otherVars>>

(***************************************************************************)
(* User mode and system calls (kernel/src/sched/user.rs).                  *)
(***************************************************************************)
\* The general-purpose registers of SavedRegs, and all its fields.
GPRegs == {"rax", "rbx", "rcx", "rdx", "rdi", "rsi", "rbp", "r8", "r9", "r10",
           "r11", "r12", "r13", "r14", "r15"}
Regs == GPRegs \cup {"rflags", "rip", "rsp"}

\* RFlags::INTERRUPT_FLAG, bit 9 of rflags.
INTERRUPT_FLAG == 512

\* flags | bit and flags & !bit, for a one-bit mask.
set_flag(flags, bit) == IF (flags \div bit) % 2 = 1 THEN flags ELSE flags + bit
clear_flag(flags, bit) == IF (flags \div bit) % 2 = 1 THEN flags - bit ELSE flags

\* SavedRegs::default(): every field 0.
SavedRegs_default == [r \in Regs |-> 0]

\* The SavedRegs start_user_task builds from its arguments and the flags
\* rflags::read() returned.
start_registers_flags_as_read(start_rip, start_rsp, flags) ==
    [SavedRegs_default EXCEPT !.rip = start_rip, !.rsp = start_rsp,
                              !.rflags = flags]
start_registers(start_rip, start_rsp, flags) ==
    [SavedRegs_default EXCEPT !.rip = start_rip, !.rsp = start_rsp,
                              !.rflags = set_flag(flags, INTERRUPT_FLAG)]

\* sysretq: rip from rcx, rflags from r11, ring 3.
sysretq(c) == [c EXCEPT !.rip = c.rcx, !.rflags = c.r11]

\* syscall::switch_to_user(registers), on a processor whose registers are c:
\* the movq's from the SavedRegs, cli, then sysretq.  A register no movq
\* loads keeps what the kernel left in it.
switch_to_user_stale_r10(regs, c) ==
    sysretq([c EXCEPT !.rax = regs.rax, !.rbx = regs.rbx, !.rdx = regs.rdx,
                      !.rdi = regs.rdi, !.rsi = regs.rsi, !.rbp = regs.rbp,
                      !.r8 = regs.r8, !.r9 = regs.r9,
                      !.r12 = regs.r12, !.r13 = regs.r13, !.r14 = regs.r14,
                      !.r15 = regs.r15,
                      !.r11 = regs.rflags,
                      !.rflags = clear_flag(c.rflags, INTERRUPT_FLAG),
                      !.rsp = regs.rsp,
                      !.rcx = regs.rip])
switch_to_user(regs, c) ==
    sysretq([c EXCEPT !.rax = regs.rax, !.rbx = regs.rbx, !.rdx = regs.rdx,
                      !.rdi = regs.rdi, !.rsi = regs.rsi, !.rbp = regs.rbp,
                      !.r8 = regs.r8, !.r9 = regs.r9, !.r10 = regs.r10,
                      !.r12 = regs.r12, !.r13 = regs.r13, !.r14 = regs.r14,
                      !.r15 = regs.r15,
                      !.r11 = regs.rflags,
                      !.rflags = clear_flag(c.rflags, INTERRUPT_FLAG),
                      !.rsp = regs.rsp,
                      !.rcx = regs.rip])

\* What the kernel's registers hold: any value, the same in each register
\* here, and the kernel's flags.
KernelValues == {1, 2}
KernelFlags == {2, 514}
KernelFile(k, flags) == [r \in Regs |-> IF r = "rflags" THEN flags ELSE k]
KernelFiles == {KernelFile(k, flags) : k \in KernelValues, flags \in KernelFlags}

\* The entry points, stack pointers and register values of user code.
UserRips == {16, 32}
UserRsps == {64, 128}
UserValues == {0, 5}

\* The kernel's temporary stack for system calls (CURRENT_STACK_HEAD) and the
\* address of syscall::entry (LSTAR), as register values.
TmpStack == 7
EntryRip == 9

\* start_user_task(start_rip, start_rsp)
start_user_task(start_rip, start_rsp) ==
    /\ mode = "kernel"
    /\ LET regs == start_registers(start_rip, start_rsp, cpu.rflags) IN
       /\ registers' = regs
       /\ cpu' = switch_to_user(regs, cpu)
    /\ startArgs' = [rip |-> start_rip, rsp |-> start_rsp, rflags |-> cpu.rflags]
    /\ mode' = "user"
    /\ UNCHANGED <<boot, groups, cpu2, atSyscall, userOps, kernelRegs, args, ret>>
    /\ UNCHANGED <<schedVars, memVars>>

\* One instruction of user code that writes v to register r.
user_instr(r, v) ==
    /\ mode = "user"
    /\ userOps < MaxUserOps
    /\ cpu' = [cpu EXCEPT ![r] = v, !.rip = cpu.rip + 1]
    /\ userOps' = userOps + 1
    /\ UNCHANGED <<boot, groups, cpu2, registers, mode, startArgs, atSyscall,
                   kernelRegs, args, ret>>
    /\ UNCHANGED <<schedVars, memVars>>

\* The syscall instruction (rcx <- rip, r11 <- rflags, rflags masked by
\* FMASK, rip <- LSTAR) and syscall::entry: the user's rsp goes to rdx, the
\* stack is switched, and the registers are pushed so that they lie in memory
\* as a SavedRegs.
entry ==
    /\ mode = "user"
    /\ LET hw == [cpu EXCEPT !.rcx = cpu.rip, !.r11 = cpu.rflags,
                             !.rflags = clear_flag(cpu.rflags, INTERRUPT_FLAG),
                             !.rip = EntryRip]
       IN /\ registers' = [r \in Regs |->
                             CASE r = "rsp" -> hw.rsp
                               [] r = "rip" -> hw.rcx
                               [] r = "rflags" -> hw.r11
                               [] r = "rdx" -> hw.rsp
                               [] OTHER -> hw[r]]
          /\ cpu' = [hw EXCEPT !.rdx = hw.rsp, !.rsp = TmpStack, !.rdi = TmpStack]
    /\ atSyscall' = cpu
    /\ mode' = "syscall"
    /\ UNCHANGED <<boot, groups, cpu2, startArgs, userOps, kernelRegs, args, ret>>
    /\ UNCHANGED <<schedVars, memVars>>

\* syscall::handle_syscall(saved_regs): its first statement is
\* todo!("Enable interrupts here"), a panic; the match on rax and the
\* switch_to_user after it are never reached.
handle_syscall ==
    /\ mode = "syscall"
    /\ mode' = "panic"
    /\ panicked' = TRUE
    /\ UNCHANGED <<virtFree, physFree, unreg, registry, regPc, regRand, regRes,
                   handles, lastWith, allowed, pageTable, faults>>
    /\ UNCHANGED <<boot, groups, cpu, cpu2, registers, startArgs, atSyscall,
                   userOps, kernelRegs, args, ret>>
    /\ UNCHANGED schedVars

\* The SavedRegs switch_to_user is applied to as a function: every field 0
\* but one.
Snapshots == {[SavedRegs_default EXCEPT ![r] = v] : r \in Regs, v \in {3, 4}}

\* switch_to_user(registers) in two executions that differ in what the
\* kernel left in the registers.
switch_to_user_call ==
    /\ mode = "kernel"
    /\ registers # None
    /\ kernelRegs' = <<cpu, cpu2>>
    /\ cpu' = switch_to_user(registers, cpu)
    /\ cpu2' = switch_to_user(registers, cpu2)
    /\ mode' = "user"
    /\ UNCHANGED <<boot, groups, registers, startArgs, atSyscall, userOps, args, ret>>
    /\ UNCHANGED <<schedVars, memVars>>

(***************************************************************************)
(* kernel_main (kernel/src/main.rs and kernel/lib.rs).                     *)
(***************************************************************************)
\* The two kernel_main of the repository.
Builds == {"main.rs", "lib.rs"}

\* The steps of kernel_main in the order the program text has them.
BootOrder == <<"memory", "interrupts", "io", "cap", "first", "enable", "start">>

\* kernel_main once sched::start() has been called.
Booted == [build |-> "lib.rs", at |-> "started", intr |-> TRUE, done |-> BootOrder]

\* kernel_main goes from `from` to `to`, having done `what`.
Step(from, to, what) ==
    /\ boot.at = from
    /\ boot' = [boot EXCEPT !.at = to, !.done = boot.done \o what]

\* x86_64::instructions::interrupts::disable()
kernel_main_entry ==
    /\ boot.at = "entry"
    /\ boot' = [boot EXCEPT !.at = "memory", !.intr = FALSE]
    /\ UNCHANGED <<groups, cpu, cpu2, registers, mode, startArgs, atSyscall,
                   userOps, kernelRegs, args, ret>>
    /\ UNCHANGED <<schedVars, memVars>>

\* memory::init: the allocators are seeded.
memory_init ==
    /\ Step("memory", "interrupts", <<"memory">>)
    /\ virtFree' = VirtPageRange
    /\ physFree' = MaxFrames
    /\ UNCHANGED <<unreg, registry, regPc, regRand, regRes, handles, lastWith,
                   allowed, pageTable, faults, panicked>>
    /\ UNCHANGED <<groups, cpu, cpu2, registers, mode, startArgs, atSyscall,
                   userOps, kernelRegs, args, ret>>
    /\ UNCHANGED schedVars

\* interrupts::init
interrupts_init ==
    /\ Step("interrupts", "io", <<"interrupts">>)
    /\ UNCHANGED <<groups, cpu, cpu2, registers, mode, startArgs, atSyscall,
                   userOps, kernelRegs, args, ret>>
    /\ UNCHANGED <<schedVars, memVars>>

\* io::init
io_init ==
    /\ Step("io", "cap", <<"io">>)
    /\ UNCHANGED <<groups, cpu, cpu2, registers, mode, startArgs, atSyscall,
                   userOps, kernelRegs, args, ret>>
    /\ UNCHANGED <<schedVars, memVars>>

\* cap::init: the registry becomes Some(BTreeMap::new()).  In main.rs the
\* block of testing code comes next, in lib.rs the first continuation.
cap_init ==
    /\ Step("cap", IF boot.build = "main.rs" THEN "test" ELSE "first", <<"cap">>)
    /\ registry' = EmptyMap
    /\ UNCHANGED <<virtFree, physFree, unreg, regPc, regRand, regRes, handles,
                   lastWith, allowed, pageTable, faults, panicked>>
    /\ UNCHANGED <<groups, cpu, cpu2, registers, mode, startArgs, atSyscall,
                   userOps, kernelRegs, args, ret>>
    /\ UNCHANGED schedVars

\* The testing code of main.rs: alloc_with_guard(1), register(), map_region,
\* then panic!("success").
kernel_main_test ==
    /\ Step("test", "panic", <<>>)
    /\ IF FreeBlocks(3) = {}
       THEN UNCHANGED <<virtFree, registry, handles, allowed>>
       ELSE \E mem \in FreeBlocks(3) :
            LET region == guard(alloc_region(mem, 3)) IN
            /\ virtFree' = virtFree \ (mem..(mem + 2))
            /\ registry' = insert(registry, SeededKey, region)
            /\ handles' = <<[key |-> SeededKey,
                             from |-> Unregistered(region, mem, 1, TRUE)]>>
            /\ allowed' = insert(allowed, region.addr,
                                 [len |-> region.len,
                                  flags |-> {"PRESENT", "WRITABLE",
                                             "USER_ACCESSIBLE", "NO_EXECUTE"}])
    /\ panicked' = TRUE
    /\ UNCHANGED <<physFree, unreg, regPc, regRand, regRes, lastWith, pageTable,
                   faults>>
    /\ UNCHANGED <<groups, cpu, cpu2, registers, mode, startArgs, atSyscall,
                   userOps, kernelRegs, args, ret>>
    /\ UNCHANGED schedVars

\* sched::init(Continuation::new(..)): the first continuation is pending.
kernel_main_first ==
    /\ Step("first", "enable", <<"first">>)
    /\ next' = <<Pair([kind |-> "Now", time |-> 0], Cont(1, FALSE))>>
    /\ nextId' = 2
    /\ UNCHANGED <<ticks, kbdBuffer, kbdLock, popped, schedLock, stacks, pc,
                   scanLeft, scanStart, cur, finished, timer>>
    /\ UNCHANGED <<groups, cpu, cpu2, registers, mode, startArgs, atSyscall,
                   userOps, kernelRegs, args, ret>>
    /\ UNCHANGED memVars

\* x86_64::instructions::interrupts::enable()
kernel_main_enable ==
    /\ boot.at = "enable"
    /\ boot' = [boot EXCEPT !.at = "start", !.intr = TRUE,
                            !.done = boot.done \o <<"enable">>]
    /\ UNCHANGED <<groups, cpu, cpu2, registers, mode, startArgs, atSyscall,
                   userOps, kernelRegs, args, ret>>
    /\ UNCHANGED <<schedVars, memVars>>

\* sched::start(): sched() is entered.
kernel_main_start ==
    /\ Step("start", "started", <<"start">>)
    /\ pc' = "sched"
    /\ UNCHANGED <<ticks, kbdBuffer, kbdLock, next, popped, schedLock, stacks,
                   scanLeft, scanStart, cur, nextId, finished, timer>>
    /\ UNCHANGED <<groups, cpu, cpu2, registers, mode, startArgs, atSyscall,
                   userOps, kernelRegs, args, ret>>
    /\ UNCHANGED memVars

(***************************************************************************)
(* Initial states.                                                         *)
(***************************************************************************)
\* Boot done, no group constructed, the processor in the kernel.
InitOtherWith(regs, c, c2) ==
    /\ boot = Booted
    /\ groups = {}
    /\ cpu = c
    /\ cpu2 = c2
    /\ registers = regs
    /\ mode = "kernel"
    /\ startArgs = None
    /\ atSyscall = None
    /\ userOps = 0
    /\ kernelRegs = None
    /\ args = None
    /\ ret = None

InitOther == InitOtherWith(None, KernelFile(1, 2), KernelFile(1, 2))

\* The processor about to execute kernel_main, as the bootloader leaves it:
\* interrupts off, nothing initialized.
InitBoot ==
    /\ ticks = 0
    /\ kbdBuffer = <<>>
    /\ kbdLock = FALSE
    /\ next = <<>>
    /\ popped = None
    /\ schedLock = FALSE
    /\ stacks = [current |-> "A", clean |-> "B",
                 fill |-> [s \in {"A", "B"} |-> "zero"], rsp |-> "boot"]
    /\ pc = "boot"
    /\ scanLeft = 0
    /\ scanStart = <<>>
    /\ cur = None
    /\ nextId = 1
    /\ finished = {}
    /\ timer = None
    /\ virtFree = {}
    /\ physFree = 0
    /\ unreg = {}
    /\ registry = None
    /\ regPc = "idle"
    /\ regRand = 0
    /\ regRes = None
    /\ handles = <<>>
    /\ lastWith = None
    /\ allowed = EmptyMap
    /\ pageTable = EmptyMap
    /\ faults = <<>>
    /\ panicked = FALSE
    /\ \E b \in Builds :
          boot = [build |-> b, at |-> "entry", intr |-> FALSE, done |-> <<>>]
    /\ groups = {}
    /\ cpu = KernelFile(1, 2)
    /\ cpu2 = KernelFile(1, 2)
    /\ registers = None
    /\ mode = "kernel"
    /\ startArgs = None
    /\ atSyscall = None
    /\ userOps = 0
    /\ kernelRegs = None
    /\ args = None
    /\ ret = None

(***************************************************************************)
(* Specifications.                                                         *)
(***************************************************************************)
Init == InitSched /\ InitMem /\ InitOther

NextSched ==
    \/ tick
    \/ handler
    \/ pic_irq_other
    \/ sched
    \/ sched_part_2_thunk
    \/ sched_part_3
    \/ kbd_next_lock
    \/ next_step
    \/ next_none
    \/ run
    \/ run_idle

NextTime ==
    \/ after_call
    \/ until_poll

NextMem ==
    \/ \E npages \in 1..MaxPages : alloc(npages)
    \/ \E npages \in 0..MaxPages : alloc_with_guard(npages)
    \/ \E u \in unreg : register_begin(u)
    \/ register_retry
    \/ register_insert
    \/ \E i \in 1..Len(handles), f \in Closures : with(i, f)
    \/ \E i \in 1..Len(handles), flags \in FlagSets : map_region(i, flags)
    \/ \E cr2 \in FaultAddrs : handle_page_fault(cr2)

\* The scheduler with its interrupts.
SpecSched == Init /\ [][NextSched]_vars

\* The scheduler entered again and again: every step of sched(), of
\* Scheduler::next and of Continuation::run that can be taken is taken, the
\* PIT keeps ticking and a halted processor is woken by an interrupt.
SpecSchedFair ==
    /\ SpecSched
    /\ WF_vars(tick)
    /\ WF_vars(pic_irq_other)
    /\ WF_vars(sched)
    /\ WF_vars(sched_part_2_thunk)
    /\ WF_vars(sched_part_3)
    /\ WF_vars(kbd_next_lock)
    /\ WF_vars(next_step)
    /\ WF_vars(next_none)
    /\ WF_vars(run)
    /\ WF_vars(run_idle)

\* SysTime::after and the Until test at every tick count.
InitAfter == InitTime /\ InitMem /\ InitOther
SpecTime == InitAfter /\ [][NextTime]_vars

NextWith ==
    \/ \E npages \in 1..MaxPages : alloc(npages)
    \/ \E npages \in 0..MaxPages : alloc_with_guard(npages)
    \/ \E u \in unreg : register_begin(u)
    \/ register_retry
    \/ register_insert
    \/ \E i \in 1..Len(handles), f \in Closures : with(i, f)

\* ResourceHandle::with on a handle of any key, between register() calls.
InitHandle == InitSched /\ InitWith /\ InitOther
SpecWith == InitHandle /\ [][NextWith]_vars

(***************************************************************************)
(* Functions checked as functions of their arguments.                      *)
(***************************************************************************)
\* The state in which a function is applied to the arguments a.
InitCall(a) ==
    /\ boot = Booted
    /\ groups = {}
    /\ cpu = KernelFile(1, 2)
    /\ cpu2 = KernelFile(1, 2)
    /\ registers = None
    /\ mode = "kernel"
    /\ startArgs = None
    /\ atSyscall = None
    /\ userOps = 0
    /\ kernelRegs = None
    /\ args = a
    /\ ret = None

\* The function has returned r.
Returns(r) ==
    /\ ret = None
    /\ ret' = [val |-> r]
    /\ UNCHANGED <<boot, groups, cpu, cpu2, registers, mode, startArgs, atSyscall,
                   userOps, kernelRegs, args>>
    /\ UNCHANGED <<schedVars, memVars>>

(***************************************************************************)
(* phys::init (kernel/src/memory/paging.rs).                               *)
(***************************************************************************)
KERNEL_HEAP_GUARD == 32 * 1048576 - Size4KiB
KERNEL_HEAP_START == KERNEL_HEAP_GUARD + Size4KiB
KERNEL_HEAP_SIZE == 4 * 1048576

\* const RESERVED: the first frame past the kernel's
RESERVED == (KERNEL_HEAP_START + KERNEL_HEAP_SIZE) \div Size4KiB

\* The frame numbers the regions of a boot memory map begin and end at.
FrameNumbers == (RESERVED - 2)..(RESERVED + MaxFrameSpan)

\* A MemoryRegion of the boot memory map: range.start_frame_number,
\* range.end_frame_number (the first frame after the range) and whether
\* region_type is Usable.
MemoryRegions ==
    {[start |-> a, end |-> b, usable |-> u] :
        a \in FrameNumbers, b \in FrameNumbers, u \in BOOLEAN}

\* The frames of a region: end_frame_number is exclusive.
frames_of(region) == region.start..(region.end - 1)

\* The boot memory maps: up to MaxMap regions, none empty.
MemoryMaps ==
    UNION {[1..n -> {r \in MemoryRegions : r.start < r.end}] : n \in 1..MaxMap}

\* BuddyAllocator::extend(start, end): the values [start, end], both ends
\* included, are added (as VIRT_ADDR_AVAILABLE's [start, end] are).
extend(start, end) == start..end

\* phys::init: the frames the allocator holds after the loop over the usable
\* regions of the map.
RECURSIVE phys_init(_)
phys_init(map) ==
    IF map = <<>> THEN {}
    ELSE LET region == Head(map)
             start == region.start
             end == region.end
             added == IF ~region.usable THEN {}
                      ELSE IF end <= RESERVED THEN {}
                      ELSE IF start > RESERVED THEN extend(start, end)
                      ELSE extend(RESERVED, end)
         IN added \cup phys_init(Tail(map))

phys_init_call == Returns(phys_init(args))

InitPhys ==
    /\ InitSched
    /\ InitMem
    /\ \E map \in MemoryMaps : InitCall(map)

\* phys::init applied to a boot memory map.
SpecPhys == InitPhys /\ [][phys_init_call]_vars

(***************************************************************************)
(* The virtual address allocator's units (kernel/src/memory/paging.rs).    *)
(* The numbers are 64-bit and reach 2^59, so they are written as five      *)
(* digits of base 4096, the most significant first.                        *)
(***************************************************************************)
Digits == 5
U64(n) == <<0, 0, n \div (Size4KiB * Size4KiB), (n \div Size4KiB) % Size4KiB,
            n % Size4KiB>>

\* a <= b
Leq(a, b) ==
    \/ a = b
    \/ \E i \in 1..Digits : a[i] < b[i] /\ \A j \in 1..(i - 1) : a[j] = b[j]

\* a + b
RECURSIVE Carry(_, _, _)
Carry(a, b, i) ==
    IF i = Digits THEN 0
    ELSE (a[i + 1] + b[i + 1] + Carry(a, b, i + 1)) \div Size4KiB
Add(a, b) == [i \in 1..Digits |-> (a[i] + b[i] + Carry(a, b, i)) % Size4KiB]

\* a * Size4KiB::SIZE
TimesSize4KiB(a) == [i \in 1..Digits |-> IF i = Digits THEN 0 ELSE a[i + 1]]

\* The number of bits of virtual address space.
ADDRESS_SPACE_WIDTH == 48

\* (1 << (ADDRESS_SPACE_WIDTH - 1)) - 1
LowerHalfEnd ==
    <<0, 2 ^ (ADDRESS_SPACE_WIDTH - 1 - 36) - 1, Size4KiB - 1, Size4KiB - 1,
      Size4KiB - 1>>

\* VIRT_ADDR_AVAILABLE: one range, [start, end]
VIRT_ADDR_AVAILABLE ==
    <<[start |-> U64(KERNEL_HEAP_START + KERNEL_HEAP_SIZE), end |-> LowerHalfEnd]>>

\* init: the values VIRT_MEM_ALLOC holds, extend(*start, *end) for each range
\* of VIRT_ADDR_AVAILABLE; alloc takes them for page numbers.
Seeded(mem) ==
    \E i \in 1..Len(VIRT_ADDR_AVAILABLE) :
        /\ Leq(VIRT_ADDR_AVAILABLE[i].start, mem)
        /\ Leq(mem, VIRT_ADDR_AVAILABLE[i].end)

\* Values the allocator may return, from both ends of what it holds and
\* from between them.
PageSamples ==
    {<<0, a, b, c, d>> : a \in {0, 1, 2047}, b \in {0, 7, 4095},
                         c \in {0, 2, 9, 4095}, d \in {0, 1024, 4095}}

\* The calls of alloc: npages and the first of the npages values the
\* allocator hands out, all of them values it holds.
AllocCalls ==
    {[mem |-> mem, npages |-> n] : mem \in PageSamples, n \in 1..MaxPages}

\* VirtualMemoryRegion::alloc: addr = mem * Size4KiB::SIZE, len = npages *
\* Size4KiB::SIZE
alloc_u64(mem, npages) ==
    [addr |-> TimesSize4KiB(mem), len |-> TimesSize4KiB(U64(npages))]

alloc_call == Returns(alloc_u64(args.mem, args.npages))

InitAlloc ==
    /\ InitSched
    /\ InitMem
    /\ \E a \in AllocCalls :
          /\ Seeded(a.mem)
          /\ Seeded(Add(a.mem, U64(a.npages - 1)))
          /\ InitCall(a)

\* VirtualMemoryRegion::alloc applied to what the allocator returns.
SpecAlloc == InitAlloc /\ [][alloc_call]_vars

\* ---- KElfLoader::compute_loaded_address (src/kernel/src/sched/user.rs) ----

\* header.virtual_addr() of the loadable headers: page-aligned and not.
SectionAddrs == {Size4KiB, Size4KiB + 2048, 4 * Size4KiB}

\* header.mem_size() of the loadable headers.
SectionSizes == {2048, Size4KiB, 3 * Size4KiB}

\* The start of the region alloc_with_guard gave the section at vaddr: each
\* section has a region of its own, sixteen pages from the next.
LoadedStart(vaddr) == 256 * Size4KiB + (vaddr \div 2048) * 16 * Size4KiB

\* user_code_sections after allocate: header.virtual_addr() -> the region of
\* the section; the sections of a binary do not overlap.
SectionMaps ==
    {m \in UNION {[D -> [size : SectionSizes, loaded : {0}]] :
                     D \in {D \in SUBSET SectionAddrs :
                               Cardinality(D) \in 1..MaxSections}} :
        \A v, w \in DOMAIN m : v < w => v + m[v].size <= w}

with_loaded(m) == [v \in DOMAIN m |-> [size |-> m[v].size, loaded |-> LoadedStart(v)]]

\* The addresses asked for: some byte of some section.
SectionOffsets == {0, 4, 2047, Size4KiB + 4, 3 * Size4KiB - 1}

ElfCalls ==
    {[sections |-> with_loaded(m), address |-> v + o] :
        <<m, v, o>> \in {t \in SectionMaps \X SectionAddrs \X SectionOffsets :
                            t[2] \in DOMAIN t[1] /\ t[3] < t[1][t[2]].size}}

Min(S) == CHOOSE x \in S : \A y \in S : x <= y

\* compute_loaded_address: range(((address >> 12) << 12)..=address).next() is
\* the entry with the least key in the window; unwrap() panics on None.
compute_loaded_address(sections, address) ==
    LET window == {b \in DOMAIN sections : PageOf(address) <= b /\ b <= address} IN
    IF window = {} THEN [panic |-> TRUE, val |-> 0]
    ELSE LET base == Min(window)
             loaded_base == sections[base].loaded
             diff == address - base
         IN [panic |-> FALSE, val |-> loaded_base + diff]

compute_loaded_address_call ==
    Returns(compute_loaded_address(args.sections, args.address))

InitElf ==
    /\ InitSched
    /\ InitMem
    /\ \E a \in ElfCalls : InitCall(a)

SpecElf == InitElf /\ [][compute_loaded_address_call]_vars

\* ---- E820Info::read (src/kernel/memory/paging/e820.rs) ----

\* The entries of memory_map: (start_addr, end_addr, region_type), zero-length
\* entries included.
E820Entries ==
    {e \in [start : 0..MaxAddr, end : 0..MaxAddr, ty : {"Usable", "Reserved"}] :
        e.start <= e.end}

\* The contents of memory_map that read goes through.
E820Maps == UNION {[1..n -> E820Entries] : n \in 1..MaxE820}

\* Iteration of a BTreeSet: ascending.
RECURSIVE Ascending(_)
Ascending(S) == IF S = {} THEN <<>> ELSE <<Min(S)>> \o Ascending(S \ {Min(S)})

\* endpoints: every start and every end of the map.
Endpoints(info) ==
    {info[i].start : i \in 1..Len(info)} \cup {info[i].end : i \in 1..Len(info)}

\* The pieces of one entry: consecutive endpoints between its start and end.
pieces(region, endpoints) ==
    LET mid == Ascending({point \in endpoints :
                             point >= region.start /\ point <= region.end})
    IN [i \in 1..(Len(mid) - 1) |->
           [start |-> mid[i], end |-> mid[i + 1], ty |-> region.ty]]

\* info.into_iter().flat_map(..).collect()
RECURSIVE flat_map(_, _)
flat_map(info, endpoints) ==
    IF info = <<>> THEN <<>>
    ELSE pieces(Head(info), endpoints) \o flat_map(Tail(info), endpoints)

\* info.sort_by_key(|&(start, _, _)| start): stable.
RECURSIVE sort_by_key(_, _)
sort_by_key(info, starts) ==
    IF starts = <<>> THEN <<>>
    ELSE SelectSeq(info, LAMBDA r : r.start = Head(starts))
             \o sort_by_key(info, Tail(starts))

\* The loop over the endpoints: drain the pieces that start at the endpoint,
\* and push the first of them when all of them are usable; unwrap() of the
\* first of none panics.
RECURSIVE usable_regions(_, _, _)
usable_regions(starts, info, regions) ==
    IF starts = <<>> THEN [panic |-> FALSE, regions |-> regions]
    ELSE LET same_start == SelectSeq(info, LAMBDA r : r.start = Head(starts))
             rest == SelectSeq(info, LAMBDA r : r.start # Head(starts))
             all_usable == \A i \in 1..Len(same_start) :
                               /\ same_start[i].start < same_start[i].end
                               /\ same_start[i].ty = "Usable"
         IN IF ~all_usable THEN usable_regions(Tail(starts), rest, regions)
            ELSE IF same_start = <<>> THEN [panic |-> TRUE, regions |-> regions]
            ELSE usable_regions(Tail(starts), rest,
                     Append(regions, <<same_start[1].start, same_start[1].end - 1>>))

read(memory_map) ==
    LET endpoints == Endpoints(memory_map)
        info == sort_by_key(flat_map(memory_map, endpoints), Ascending(endpoints))
    IN usable_regions(Ascending(endpoints), info, <<>>)

read_call == Returns(read(args))

InitE820 ==
    /\ InitSched
    /\ InitMem
    /\ \E map \in E820Maps : InitCall(map)

SpecE820 == InitE820 /\ [][read_call]_vars

NextCap ==
    \/ \E caps \in CapLists : CapabilityGroup_new(caps)
    \/ \E g \in groups : UnregisteredResourceHandle_new(g)
    \/ \E u \in unreg : register_begin(u)
    \/ register_retry
    \/ register_insert

\* Capability groups constructed and registered.
SpecCap == Init /\ [][NextCap]_vars

NextUser ==
    \/ \E start_rip \in UserRips, start_rsp \in UserRsps :
          start_user_task(start_rip, start_rsp)
    \/ \E r \in GPRegs \cup {"rsp"}, v \in UserValues : user_instr(r, v)
    \/ entry
    \/ handle_syscall

\* A user task started, running and making a system call.
InitUser ==
    /\ InitSched
    /\ InitMem
    /\ \E c \in KernelFiles : InitOtherWith(None, c, c)
SpecUser == InitUser /\ [][NextUser]_vars

\* The same, with the kernel executing the system call's handler.
SpecUserFair == SpecUser /\ WF_vars(handle_syscall)

\* switch_to_user as a function of the SavedRegs and of what the kernel left
\* in the registers, in two executions.
InitSwitch ==
    /\ InitSched
    /\ InitMem
    /\ \E regs \in Snapshots, c \in KernelFiles, c2 \in KernelFiles :
          InitOtherWith(regs, c, c2)
SpecSwitch == InitSwitch /\ [][switch_to_user_call]_vars

NextBoot ==
    \/ kernel_main_entry
    \/ memory_init
    \/ interrupts_init
    \/ io_init
    \/ cap_init
    \/ kernel_main_test
    \/ kernel_main_first
    \/ kernel_main_enable
    \/ kernel_main_start
    \/ boot.intr /\ tick
    \/ boot.intr /\ handler
    \/ boot.intr /\ pic_irq_other
    \/ sched
    \/ sched_part_2_thunk
    \/ sched_part_3
    \/ kbd_next_lock
    \/ next_step
    \/ next_none
    \/ run
    \/ run_idle

\* kernel_main from its first statement, then the scheduler.
SpecBoot == InitBoot /\ [][NextBoot]_vars

\* The same, with the processor executing kernel_main to its end.
SpecBootFair ==
    /\ SpecBoot
    /\ WF_vars(kernel_main_entry)
    /\ WF_vars(memory_init)
    /\ WF_vars(interrupts_init)
    /\ WF_vars(io_init)
    /\ WF_vars(cap_init)
    /\ WF_vars(kernel_main_test)
    /\ WF_vars(kernel_main_first)
    /\ WF_vars(kernel_main_enable)
    /\ WF_vars(kernel_main_start)

\* The capability registry, the memory regions and the page-fault handler.
SpecMem == Init /\ [][NextMem]_vars

\* The same, with the processor executing register() to its end.
SpecMemFair ==
    SpecMem /\ WF_vars(register_retry) /\ WF_vars(register_insert)

(***************************************************************************)
(* Properties of the scheduler, checked under SpecSched.                   *)
(***************************************************************************)

\* C1: Scheduler::next never returns a continuation queued under Until(t)
\* while SysTime::now() < t: whenever a continuation that was queued under
\* Until(t) has been returned and is about to run, the tick counter is at
\* least t, for every interleaving of enqueues, scans and timer ticks.
C1_UntilNotEarly ==
    (pc = "run" /\ cur.kind = "Until") => now >= cur.time

\* A continuation queued under Until(t), t the last tick of the model, has
\* been returned at the very tick t.
C1_Witness ==
    pc = "run" /\ cur.kind = "Until" /\ cur.time = MaxTicks /\ now = cur.time

\* The step of the loop of Scheduler::next in which kbd_next pops the buffer
\* for the Keyboard entry popped from the list.
ExaminesKeyboard ==
    /\ pc = "kbd"
    /\ pc' \notin {"kbd", "spin"}

\* C10: a continuation queued under Keyboard is returned by the call of next()
\* in which, when its entry is examined, the keyboard buffer yields a byte, and
\* it is run with Event::Keyboard of that byte, the byte leaving the buffer;
\* when the buffer is empty the entry goes to the back of the list and is not
\* returned.
C10_KeyboardReady ==
    [][ExaminesKeyboard =>
          IF kbdBuffer # <<>>
          THEN /\ pc' = "run"
               /\ cur'.cont = popped.cont
               /\ cur'.ev = "Keyboard"
               /\ cur'.c = Head(kbdBuffer)
               /\ kbdBuffer' = Tail(kbdBuffer)
               /\ next' = next
          ELSE /\ pc' = "scan"
               /\ cur' = cur
               /\ next' = Append(next, popped)
               /\ kbdBuffer' = kbdBuffer]_vars

\* A keyboard waiter runs with the first of two buffered bytes, the second
\* still buffered.
C10_Witness ==
    /\ pc = "run"
    /\ cur.kind = "Keyboard"
    /\ cur.ev = "Keyboard"
    /\ cur.c = 98
    /\ kbdBuffer = <<97>>

\* A step in which Scheduler::next returns a continuation with
\* Event::Keyboard(c).
Delivers(c) ==
    /\ cur' # cur
    /\ cur' # None
    /\ cur'.ev = "Keyboard"
    /\ cur'.c = c

\* C11: the bytes handed out in Event::Keyboard to the keyboard waiters that
\* are dispatched are, in order, a prefix of the bytes the handler appended:
\* the buffer changes only by the handler appending one byte at its back or
\* by its front byte leaving, and a byte leaves exactly in the step that
\* returns a continuation with Event::Keyboard of that byte.  So the bytes
\* delivered so far followed by the buffer are the bytes appended so far.
C11_KeyboardFifo ==
    [][/\ kbdBuffer' # kbdBuffer =>
             \/ /\ \E key \in Bytes : kbdBuffer' = Append(kbdBuffer, key)
                /\ UNCHANGED <<cur, next>>
             \/ /\ kbdBuffer # <<>>
                /\ kbdBuffer' = Tail(kbdBuffer)
                /\ Delivers(Head(kbdBuffer))
       /\ (\E c \in Bytes : Delivers(c)) =>
             /\ kbdBuffer # <<>>
             /\ kbdBuffer' = Tail(kbdBuffer)
             /\ cur'.c = Head(kbdBuffer)]_vars

\* A keyboard waiter runs with the byte 97 while a byte 98 and another 97
\* appended after it are buffered.
C11_Witness ==
    /\ pc = "run"
    /\ cur.ev = "Keyboard"
    /\ cur.c = 97
    /\ kbdBuffer = <<98, 97>>

\* A pending entry of continuation id.
Pending(id) == \E i \in 1..Len(next) : next[i].cont.id = id

\* Continuation id is pending under Now, or under Until(t).
PendingNow(id) ==
    \E i \in 1..Len(next) : next[i].cont.id = id /\ next[i].kind = "Now"
PendingUntil(id, t) ==
    \E i \in 1..Len(next) :
       next[i].cont.id = id /\ next[i].kind = "Until" /\ next[i].time = t

\* Continuation id has been returned by Scheduler::next and is being run.
Running(id) == pc = "run" /\ cur # None /\ cur.cont.id = id

Places(id) ==
    Cardinality({i \in 1..Len(next) : next[i].cont.id = id})
    + (IF popped # None /\ popped.cont.id = id THEN 1 ELSE 0)
    + (IF cur # None /\ cur.cont.id = id THEN 1 ELSE 0)
    + (IF id \in finished THEN 1 ELSE 0)

\* C15: every continuation handed to the scheduler is in exactly one place:
\* once in the pending collection (the list, or the entry Scheduler::next
\* holds while it examines it), or running, or finished.  It is never
\* duplicated, never dropped, never run a second time.
C15_ExactlyOnce ==
    \A id \in 1..(nextId - 1) : Places(id) = 1

\* An entry found not ready has gone to the back of the list behind a later
\* one, a continuation is running and another has finished.
C15_Witness ==
    /\ pc = "run"
    /\ cur.cont.id = 3
    /\ 1 \in finished
    /\ Len(next) = 1
    /\ next[1].cont.id = 2

\* C16: at most one continuation is running, and only where
\* Continuation::run executes; the running continuation is not in the
\* pending collection; every continuation that was enqueued and is neither
\* running nor finished is in the pending collection.
C16_OneRunning ==
    /\ cur # None => pc = "run" /\ ~Pending(cur.cont.id)
    /\ popped # None => pc \in {"kbd", "spin"}
    /\ \A id \in 1..(nextId - 1) :
          (id \notin finished /\ ~(cur # None /\ cur.cont.id = id))
             => (Pending(id) \/ (popped # None /\ popped.cont.id = id))

\* A keyboard waiter runs after the first continuation has finished, while
\* a timer waiter whose time has not come is pending.
C16_Witness ==
    /\ pc = "run"
    /\ cur.kind = "Keyboard"
    /\ 1 \in finished
    /\ Len(next) = 1
    /\ next[1].kind = "Until"
    /\ next[1].time > now

\* C17: the scheduler's lock is free when sched_part_2_thunk loads the stack
\* pointer and when Continuation::run invokes a closure (the idle closure,
\* halted, included).
C17_LockFreeAtSwitchAndRun ==
    pc \in {"thunk", "run", "hlt"} => ~schedLock

\* The stack pointer is about to be loaded after a closure has run, has
\* enqueued under the lock, and sched has swapped the stacks under the lock.
C17_Witness ==
    /\ pc = "thunk"
    /\ finished # {}
    /\ next # <<>>
    /\ ~schedLock

\* A step in which a timer or keyboard interrupt changed the tick counter or
\* appended to the keyboard buffer.
Interrupt ==
    \/ ticks' # ticks
    \/ Len(kbdBuffer') > Len(kbdBuffer)

\* C18: a timer or keyboard interrupt changes only the tick counter or the
\* keyboard buffer; the pending list, the entry in Scheduler::next's hand,
\* the running continuation, the stacks, the scan and the locks are as
\* before, and no continuation is returned in that step.
C18_InterruptFrame ==
    [][Interrupt =>
          /\ UNCHANGED <<next, popped, cur, stacks, scanLeft, schedLock, kbdLock,
                         nextId, finished>>
          /\ pc' # pc => (pc = "hlt" /\ pc' = "sched")]_vars

\* Continuation 3 runs; the keyboard waiter 2, ahead of it in the list, was
\* found not ready; a tick and a byte have arrived since and the waiter is
\* still pending.
C18_Witness ==
    /\ pc = "run"
    /\ cur.cont.id = 3
    /\ cur.kind = "Now"
    /\ Len(next) = 1
    /\ next[1].kind = "Keyboard"
    /\ next[1].cont.id = 2
    /\ kbdBuffer # <<>>
    /\ ticks > 0

\* C19: a keyboard interrupt always completes and returns to the interrupted
\* code: a handler waiting for the keyboard buffer's lock gets it.
C19_HandlerReturns ==
    (pc = "spin") ~> (pc # "spin")

(***************************************************************************)
(* Properties of SysTime::after, checked under SpecTime.                   *)
(***************************************************************************)

\* C12: s.after(secs) is s + secs * 1000 ticks, and an entry queued under
\* Until(s.after(secs)) is found ready by Scheduler::next exactly at the
\* tick counts from s + secs * 1000 on.
C12_AfterAndUntil ==
    timer # None =>
       /\ timer.time = timer.s + timer.secs * 1000
       /\ timer.polled => (timer.ready <=> ticks >= timer.s + timer.secs * 1000)

\* now().after(4) computed at timestamp 0 and polled at tick 3999: not ready.
C12_Witness ==
    /\ timer # None
    /\ timer.polled
    /\ timer.s = 0
    /\ timer.secs = 4
    /\ ticks = 3999
    /\ ~timer.ready

(***************************************************************************)
(* Properties of the registry and of paging, checked under SpecMem.        *)
(***************************************************************************)

\* C2: no two ResourceHandles returned by distinct register() calls carry
\* equal keys.
C2_UniqueKeys ==
    \A i, j \in 1..Len(handles) : i # j => handles[i].key # handles[j].key

\* A handle has been returned and a later register() call holds a candidate
\* equal to its key.
C2_Witness ==
    /\ Len(handles) >= 1
    /\ regPc = "loop"
    /\ regRand = handles[1].key
    /\ contains_key(registry, regRand)

\* C3: every call to register() terminates and returns a handle, also when
\* its first candidate key is already in the registry.
C3_RegisterReturns ==
    (regPc = "loop") ~> (regPc = "idle")

\* C4: for every handle h returned by register() of capability object c, the
\* registry holds c under h's key, and with(f) on h yields f applied to c.
C4_WithExactObject ==
    /\ \A i \in 1..Len(handles) :
          /\ handles[i].key \in DOMAIN registry
          /\ registry[handles[i].key] = handles[i].from.res
    /\ lastWith # None =>
          LET c == handles[lastWith.handle].from.res IN
          lastWith.result = CASE lastWith.f = "start" -> c.addr
                              [] lastWith.f = "len" -> c.len
                              [] OTHER -> c

\* with(start) has run on the handle of a guarded two-page region.
C4_Witness ==
    /\ lastWith # None
    /\ lastWith.f = "start"
    /\ handles[lastWith.handle].from.guarded
    /\ handles[lastWith.handle].from.npages = 2
    /\ lastWith.result = handles[lastWith.handle].from.block + Size4KiB

\* A step that is a page fault, and the fault it logs.
FaultTaken == Len(faults') = Len(faults) + 1
Fault == faults'[Len(faults')]

\* The entry of ALLOWED that covers an address.
CoveringStart(map, a) == CHOOSE s \in DOMAIN map : s <= a /\ a < s + map[s].len

\* C5: a page fault at an address a inside an allowed range takes exactly one
\* frame from the physical allocator and installs a mapping for the page that
\* contains a, with the flags map_region recorded for the range.
C5_FaultMapsFaultingPage ==
    [][(FaultTaken /\ Fault.covered /\ physFree > 0) =>
          /\ ~panicked'
          /\ physFree' = physFree - 1
          /\ DOMAIN pageTable' = DOMAIN pageTable \cup {PageOf(Fault.addr)}
          /\ pageTable'[PageOf(Fault.addr)] =
                 allowed[CoveringStart(allowed, Fault.addr)].flags]_vars

\* C6: a page fault at an address that lies in no allowed range is fatal and
\* installs no mapping.
C6_UncoveredFaultFatal ==
    [][(FaultTaken /\ ~Fault.covered) =>
          (panicked' /\ pageTable' = pageTable)]_vars

\* C7: for every n >= 1 the region of alloc_with_guard(n) has len n pages and
\* starts one page above the first address of its (n+2)-page block, so the
\* page before start and the page at start+len lie in the block and outside
\* the region.
GuardedRegionRight(u) ==
    (u.guarded /\ u.npages >= 1) =>
        /\ u.res.len = u.npages * Size4KiB
        /\ u.res.addr = u.block + Size4KiB
        /\ u.block <= u.res.addr - Size4KiB
        /\ u.res.addr + u.res.len + Size4KiB <= u.block + (u.npages + 2) * Size4KiB

C7_GuardedRegion ==
    /\ \A u \in unreg : GuardedRegionRight(u)
    /\ \A i \in 1..Len(handles) : GuardedRegionRight(handles[i].from)

\* alloc_with_guard(2) has returned.
C7_Witness ==
    \E u \in unreg : u.guarded /\ u.npages = 2 /\ u.res.len = 2 * Size4KiB

\* C8: when two different pages of one allowed range are faulted one after
\* the other, both faults are serviced, both pages end up mapped, exactly two
\* frames are taken and no other page is mapped.
C8_TwoFaultsTwoFrames ==
    (/\ Len(faults) = 2
     /\ faults[1].covered
     /\ faults[2].covered
     /\ PageOf(faults[1].addr) # PageOf(faults[2].addr)
     /\ faults[1].framesBefore >= 2
     /\ \E s \in DOMAIN allowed :
           \A k \in 1..2 : s <= faults[k].addr /\ faults[k].addr < s + allowed[s].len)
    => /\ ~panicked
       /\ physFree = faults[1].framesBefore - 2
       /\ DOMAIN pageTable = {PageOf(faults[1].addr), PageOf(faults[2].addr)}

\* C9: map_region changes only the allowed-range map, adding the entry
\* region.start -> (region.len, flags); the physical allocator, the page
\* tables and the registry stay as they are.
C9_MapRegionFrame ==
    [][\A i \in 1..Len(handles), flags \in FlagSets :
          (map_region(i, flags) /\ ~panicked') =>
              /\ UNCHANGED <<physFree, pageTable, registry, virtFree>>
              /\ LET c == handles[i].from.res IN
                 /\ DOMAIN allowed' = DOMAIN allowed \cup {c.addr}
                 /\ allowed'[c.addr] = [len |-> c.len, flags |-> flags]
                 /\ \A s \in DOMAIN allowed \ {c.addr} : allowed'[s] = allowed[s]]_vars

\* map_region has recorded a guarded region: its entry is in the allowed-range
\* map, no frame is taken and no page is mapped.
C9_Witness ==
    /\ Len(handles) = 1
    /\ handles[1].from.guarded
    /\ handles[1].from.res.addr \in DOMAIN allowed
    /\ allowed[handles[1].from.res.addr].len = handles[1].from.res.len
    /\ physFree = MaxFrames
    /\ pageTable = EmptyMap

\* C21: no register() or with() call removes or replaces a registry entry:
\* in every step every key stays and keeps its object, and the lookup of
\* with() finds the key of every handle returned so far.
C21_RegistryOnlyGrows ==
    [][/\ \A k \in DOMAIN registry :
             k \in DOMAIN registry' /\ registry'[k] = registry[k]
       /\ \A i \in 1..Len(handles') :
             /\ handles'[i].key \in DOMAIN registry'
             /\ registry'[handles'[i].key] = handles'[i].from.res]_vars

\* A second register() call, of another object, holds a candidate key that is
\* the first handle's, and with() has since succeeded on the first handle.
C21_Witness ==
    /\ Len(handles) = 1
    /\ regPc = "loop"
    /\ regRand = handles[1].key
    /\ regRes.res # handles[1].from.res
    /\ registry[regRand] = handles[1].from.res
    /\ lastWith # None

\* C23: every region alloc or alloc_with_guard has produced starts on a page
\* boundary, has a length that is a positive multiple of the page size, and
\* ends above its start.
C23_RegionsWellFormed ==
    \A u \in unreg :
       /\ u.res.addr % Size4KiB = 0
       /\ u.res.len > 0
       /\ u.res.len % Size4KiB = 0
       /\ u.res.addr + u.res.len > u.res.addr

(***************************************************************************)
(* Properties of ResourceHandle::with as a function, checked under         *)
(* SpecWith.                                                               *)
(***************************************************************************)

\* C20: ResourceHandle::with on a handle whose key is absent from the
\* registry panics: no result is produced, the closure is not called, and
\* the registry is as before.
C20_WithAbsentKeyPanics ==
    [][\A i \in 1..Len(handles) : \A f \in Closures :
          (with(i, f) /\ handles[i].key \notin DOMAIN registry)
             => /\ panicked'
                /\ lastWith' = lastWith
                /\ registry' = registry]_vars

\* with has panicked on the handle of key 0 while the registry held an
\* entry under another key.
C20_Witness ==
    /\ panicked
    /\ handles[1].key = 0
    /\ DOMAIN registry = {SeededKey}
    /\ lastWith = None

(***************************************************************************)
(* Properties of kernel_main.                                              *)
(***************************************************************************)
IsPrefix(s, t) == Len(s) <= Len(t) /\ s = SubSeq(t, 1, Len(s))

Done(what) == \E i \in 1..Len(boot.done) : boot.done[i] = what

\* C22: kernel_main initializes memory, interrupts, I/O and capabilities,
\* creates the first continuation, enables interrupts and enters the
\* scheduler, in that order; interrupts are off until all of memory,
\* interrupts, I/O, capabilities and the first continuation are done; and the
\* scheduler is eventually entered.  kernel_main of main.rs panics after
\* cap::init, in its testing code.
C22_BootSequence ==
    /\ [](/\ IsPrefix(boot.done, BootOrder)
          /\ boot.intr => \A what \in {"memory", "interrupts", "io", "cap", "first"} :
                             Done(what))
    /\ <>(boot.at = "started")

(***************************************************************************)
(* Properties of capability groups.                                        *)
(***************************************************************************)
Flat(g) == \A i \in 1..Len(g.caps) : ~IsGroup(g.caps[i])

\* C24: no capability group that has been constructed, and none in the
\* registry, has a capability group among its members.  CapabilityGroup::new
\* stores the Vec it is given without looking at it.
C24_NoNestedGroups ==
    /\ \A g \in groups : Flat(g)
    /\ \A k \in DOMAIN registry : IsGroup(registry[k]) => Flat(registry[k])

(***************************************************************************)
(* Properties of user mode and system calls.                               *)
(***************************************************************************)
\* C25: the SavedRegs start_user_task(start_rip, start_rsp) hands to
\* switch_to_user has rip = start_rip, rsp = start_rsp, rflags = the flags
\* read with the interrupt flag set, and every general-purpose register 0.
C25_StartSnapshot ==
    (startArgs # None /\ userOps = 0 /\ mode = "user") =>
        /\ registers.rip = startArgs.rip
        /\ registers.rsp = startArgs.rsp
        /\ (registers.rflags \div INTERRUPT_FLAG) % 2 = 1
        /\ clear_flag(registers.rflags, INTERRUPT_FLAG)
              = clear_flag(startArgs.rflags, INTERRUPT_FLAG)
        /\ \A r \in GPRegs : registers[r] = 0

\* C25, the case: the task was started with interrupts off in the kernel.
C25_Witness ==
    /\ startArgs # None
    /\ mode = "user"
    /\ userOps = 0
    /\ startArgs.rflags = 2
    /\ startArgs.rip = 32
    /\ registers.rflags = 514

Resumed ==
    /\ mode = "user"
    /\ atSyscall # None
    /\ cpu.rip = atSyscall.rip
    /\ cpu.rsp = atSyscall.rsp
    /\ cpu.rflags = atSyscall.rflags
    /\ \A r \in GPRegs \ {"rdx", "rcx", "r11"} : cpu[r] = atSyscall[r]

\* C27: a system call whose number in rax is not 0 resumes the caller: user
\* mode at the saved rip with the saved rsp and rflags, and every
\* general-purpose register but rdx, rcx and r11 as it was at the syscall
\* instruction.  handle_syscall panics in its first statement.
C27_SyscallResumes == (mode = "syscall" /\ registers.rax # 0) ~> Resumed

\* C28: a system call with number 0 ends the calling task: the kernel enters
\* sched() and the task is not resumed.  handle_syscall panics in its first
\* statement, before the match on rax.
C28_ExitEntersScheduler ==
    /\ (mode = "syscall" /\ registers.rax = 0) ~> (mode = "sched")
    /\ [][(mode = "syscall" /\ registers.rax = 0) => mode' # "user"]_vars

(***************************************************************************)
(* Properties of Scheduler::next.                                          *)
(***************************************************************************)
\* One iteration of the loop of Scheduler::next is completed by this step:
\* the scheduler's control moves on from the match (interrupts leave it
\* where it is, or spin).
Examines ==
    \/ pc = "scan" /\ scanLeft > 0 /\ scanLeft' # scanLeft /\ pc' \in {"scan", "run"}
    \/ pc = "kbd" /\ pc' \in {"scan", "run"}

\* The entry that iteration popped, and its place in the list the call began
\* with.
Examined == IF pc = "kbd" THEN popped ELSE Head(next)
ExaminedAt == Len(scanStart) - scanLeft + 1

\* The call returns Some / None in this step.
ReturnsSome == Examines /\ pc' = "run"
ReturnsNone == pc = "scan" /\ scanLeft = 0 /\ pc' = "run"

\* The condition of an entry: Now always, Until(t) iff now >= t, Keyboard
\* iff a byte is buffered.
ConditionHolds(e) ==
    CASE e.kind = "Now" -> TRUE
      [] e.kind = "Until" -> ticks >= e.time
      [] e.kind = "Keyboard" -> kbdBuffer # <<>>

\* The entries of the list s other than the i-th, from the one after it
\* round to the one before it.
Others(s, i) == SubSeq(s, i + 1, Len(s)) \o SubSeq(s, 1, i - 1)

\* The k-th iteration examines the k-th entry of the list the call began
\* with, so each at most once and in list order; the call returns that
\* entry exactly when its condition holds as it is examined, and None only
\* after the last.
ScanInOrder ==
    [][/\ Examines =>
            /\ ExaminedAt \in 1..Len(scanStart)
            /\ Examined = scanStart[ExaminedAt]
            /\ ReturnsSome <=> ConditionHolds(Examined)
            /\ ReturnsSome =>
                   /\ cur'.cont = Examined.cont
                   /\ cur'.kind = Examined.kind
                   /\ Examined.kind = "Keyboard" => cur'.c = Head(kbdBuffer)
       /\ ReturnsNone => ExaminedAt = Len(scanStart) + 1]_vars

\* C29: each call of next() terminates, having examined every entry pending
\* at its start at most once; it returns the first entry, in list order,
\* whose condition holds when it is examined, and None only if none did.
\* The call does not terminate when the keyboard handler interrupts kbd_next
\* (C19).
C29_NextScansOnceAndReturns ==
    /\ ScanInOrder
    /\ (pc \in {"scan", "kbd"}) ~> (pc = "run")

\* C30: when next() returns None the pending list is the list the call
\* began with, in the same order, and no step of next() that does not
\* return a Keyboard event changes the keyboard buffer; when it returns
\* Some, the returned entry is gone from the list and the others are all
\* there.
C30_NextFrame ==
    [][/\ ReturnsNone => next' = scanStart /\ kbdBuffer' = kbdBuffer
       /\ ReturnsSome =>
             /\ next' = Others(scanStart, ExaminedAt)
             /\ cur'.cont = scanStart[ExaminedAt].cont
       /\ (Examines /\ ~(ReturnsSome /\ Examined.kind = "Keyboard")) =>
             kbdBuffer' = kbdBuffer
       /\ (pc = "scan" /\ pc' = "kbd") => kbdBuffer' = kbdBuffer]_vars

\* C30, the case: next() has returned None with a Keyboard entry and a
\* timer entry pending, in that order, and the idle continuation runs.
C30_Witness ==
    /\ pc = "run"
    /\ cur.cont.idle
    /\ Len(next) = 2
    /\ next[1].kind = "Keyboard"
    /\ next[2].kind = "Until"

(***************************************************************************)
(* Order of service of the continuations that wait for the keyboard.       *)
(***************************************************************************)
\* Continuations are numbered as they are made, and a batch is appended in
\* order, so of two Keyboard entries the one of the smaller number was
\* enqueued first.
\* C31, as claimed: a continuation queued under Keyboard is not dispatched
\* while one enqueued under Keyboard before it is pending.
C31_KeyboardWaitersInEnqueueOrder ==
    (pc = "run" /\ cur.kind = "Keyboard") =>
        \A i \in 1..Len(next) :
            next[i].kind = "Keyboard" => next[i].cont.id > cur.cont.id

\* C31, as the code has it: Keyboard waiters are served in the order the scan
\* of next() reaches them.  An entry queued under Keyboard is put back only
\* when it is examined with the buffer empty; when one is returned it gets
\* the oldest byte, and every Keyboard entry that was ahead of it in the list
\* at the start of the call is pending behind the entries that followed it.
C31_KeyboardWaitersInScanOrder ==
    [][/\ (Examines /\ Examined.kind = "Keyboard" /\ ~ReturnsSome) =>
             kbdBuffer = <<>>
       /\ (ReturnsSome /\ Examined.kind = "Keyboard") =>
             /\ cur'.c = Head(kbdBuffer)
             /\ \A j \in 1..(ExaminedAt - 1) :
                    scanStart[j].kind = "Keyboard" =>
                        next'[Len(scanStart) - ExaminedAt + j] = scanStart[j]]_vars

\* C31, the case: the continuation 3 is dispatched with a byte while the
\* continuation 2, enqueued under Keyboard before it, is pending.
C31_Witness ==
    /\ pc = "run"
    /\ cur.kind = "Keyboard"
    /\ cur.cont.id = 3
    /\ \E i \in 1..Len(next) : next[i].kind = "Keyboard" /\ next[i].cont.id = 2

(***************************************************************************)
(* Properties of Continuation::run.                                        *)
(***************************************************************************)
\* Continuation::run of a continuation whose closure returns is done in this
\* step (interrupts leave the control where it is).
RunStep == pc = "run" /\ ~cur.cont.idle /\ pc' # pc

\* What the step has put behind the entries that were pending.
Appended == SubSeq(next', Len(next) + 1, Len(next'))

\* C32: Continuation::run calls the closure once, appends the pairs of
\* Success(list) in order, (Now, c) for Error(c), and for Done only an idle
\* continuation under Now; it removes nothing and then enters sched().
C32_RunEnqueuesResult ==
    [][RunStep =>
         /\ cur.cont.id \notin finished
         /\ finished' = finished \cup {cur.cont.id}
         /\ Len(next') >= Len(next)
         /\ SubSeq(next', 1, Len(next)) = next
         /\ \/ Appended \in Batches(nextId, MaxBatch)
            \/ Appended = <<Pair([kind |-> "Now", time |-> 0], Cont(nextId, FALSE))>>
            \/ Appended = <<Pair([kind |-> "Now", time |-> 0], make_idle_cont(nextId))>>
         /\ nextId' = nextId + Len(Appended)
         /\ cur' = None
         /\ pc' = "sched"]_vars

\* C32, the case: continuation 2 has run while continuation 3 was pending
\* and has returned Done, and sched() is entered.
C32_Witness ==
    /\ pc = "sched"
    /\ finished = {1, 2}
    /\ Len(next) = 2
    /\ next[1].cont = Cont(3, FALSE)
    /\ next[2] = Pair([kind |-> "Now", time |-> 0], make_idle_cont(4))

(***************************************************************************)
(* Properties of the dispatch in sched_part_3.                             *)
(***************************************************************************)
\* The Event variant of an EventKind.
EventOf(kind) ==
    CASE kind = "Now" -> "Now"
      [] kind = "Until" -> "Timer"
      [] kind = "Keyboard" -> "Keyboard"

\* C33: a continuation is run with the Event variant of the EventKind it was
\* queued under: Now with Event::Now, Until(t) with Event::Timer, Keyboard
\* with Event::Keyboard(byte), the byte one that was typed.
C33_EventMatchesKind ==
    pc = "run" =>
        /\ cur.ev = EventOf(cur.kind)
        /\ cur.kind = "Keyboard" => cur.c \in Bytes

\* C33, the case: a continuation queued under Until(2) is run with
\* Event::Timer while one queued under Keyboard is pending.
C33_Witness ==
    /\ pc = "run"
    /\ cur.kind = "Until"
    /\ cur.time = 2
    /\ cur.ev = "Timer"
    /\ \E i \in 1..Len(next) : next[i].kind = "Keyboard"

(***************************************************************************)
(* Properties of the handoff in sched().                                   *)
(***************************************************************************)
\* The order of the steps of a pass through sched().
HandoffOrder ==
    {<<"sched", "thunk">>, <<"thunk", "part3">>, <<"part3", "scan">>,
     <<"scan", "kbd">>, <<"kbd", "scan">>, <<"kbd", "spin">>,
     <<"scan", "run">>, <<"kbd", "run">>,
     <<"run", "sched">>, <<"run", "hlt">>, <<"hlt", "sched">>}

\* C34: a pass through sched() swaps the current and the clean stack under
\* the lock and releases it, loads the stack pointer with the new current
\* stack, takes the lock again, overwrites the old stack with the sentinel,
\* picks the next continuation, releases the lock and runs it, in that order;
\* the stack overwritten is not the one the processor is on, and the stack a
\* continuation runs on is swapped exactly once between two continuations.
C34_HandoffSteps ==
    [][/\ pc' # pc => <<pc, pc'>> \in HandoffOrder
       /\ stacks.current # stacks.clean
       /\ stacks'.current # stacks.current => pc = "sched" /\ pc' = "thunk"
       /\ (pc = "sched" /\ pc' = "thunk") =>
             /\ ~schedLock /\ ~schedLock'
             /\ stacks'.current = stacks.clean
             /\ stacks'.clean = stacks.current
             /\ stacks'.rsp = stacks.rsp
       /\ (pc = "thunk" /\ pc' = "part3") =>
             /\ ~schedLock /\ ~schedLock'
             /\ stacks'.rsp = stacks.current
             /\ stacks'.fill = stacks.fill
       /\ (pc = "part3" /\ pc' = "scan") =>
             /\ ~schedLock /\ schedLock'
             /\ stacks.clean # stacks.rsp
             /\ stacks'.fill[stacks.clean] = "DEADBEEF"
             /\ stacks'.fill[stacks.rsp] = stacks.fill[stacks.rsp]
             /\ stacks'.rsp = stacks.rsp
       /\ (pc \in {"scan", "kbd"}) => schedLock /\ stacks' = stacks
       /\ (pc # "run" /\ pc' = "run") => ~schedLock'
       /\ pc = "run" => stacks.rsp = stacks.current /\ ~schedLock]_vars

\* C34, the case: a second continuation runs, on the stack A, after the
\* first one ran on B, and B has been overwritten.
C34_Witness ==
    /\ pc = "run"
    /\ finished = {1}
    /\ stacks.rsp = "A"
    /\ stacks.fill["B"] = "DEADBEEF"
    /\ stacks.fill["A"] = "used"

C36_OnlyUsableFrames ==
    ret # None =>
        \A f \in ret.val :
            /\ f >= RESERVED
            /\ \E i \in 1..Len(args) : args[i].usable /\ f \in frames_of(args[i])

(***************************************************************************)
(* Properties of VirtualMemoryRegion::alloc.                               *)
(***************************************************************************)
\* C37: every region alloc returns lies in the usable part of the address
\* space: its first byte is at or after the end of the kernel heap and its
\* last byte at or before 2^47 - 1.  The allocator is seeded with byte
\* addresses and alloc multiplies what it returns by the page size.
C37_RegionInAddressSpace ==
    ret # None =>
        /\ Leq(U64(KERNEL_HEAP_START + KERNEL_HEAP_SIZE), ret.val.addr)
        /\ Leq(Add(ret.val.addr, U64(args.npages * Size4KiB - 1)), LowerHalfEnd)

C39_LoadedAddressOfSection ==
    ret # None =>
        \A v \in DOMAIN args.sections :
            (v <= args.address /\ args.address < v + args.sections[v].size) =>
                /\ ~ret.val.panic
                /\ ret.val.val = args.sections[v].loaded + (args.address - v)

\* C40: E820Info::read returns normally for any memory map, overlapping or
\* adjacent entries included, and a portion of memory is in a returned range
\* only if every map entry that overlaps the portion is marked usable.
C40_ReadReturnsUsablePortions ==
    ret # None =>
        /\ ~ret.val.panic
        /\ \A k \in 1..Len(ret.val.regions), i \in 1..Len(args) :
              (/\ args[i].start <= ret.val.regions[k][2]
               /\ ret.val.regions[k][1] < args[i].end) => args[i].ty = "Usable"

====
